---- MODULE Spec2Model ----
(***************************************************************************)
(* InkWave Publishing Data Warehouse: the Oracle connection pool           *)
(* (03_Python_Scripts/oracle_connection.py), the CSV validation engine     *)
(* (data_extraction.py) and the ETL orchestration (data_analysis.py).      *)
(*                                                                         *)
(* The store is modelled as the sequence of committed rows; every pooled   *)
(* session carries the rows of its open transaction.  Every call on the    *)
(* driver (acquire, cursor, execute, commit, rollback, cursor.close) may   *)
(* raise; a call that raises has no effect on the store.                   *)
(***************************************************************************)
EXTENDS Integers, Sequences, FiniteSets, TLC

\* ------------------------------------------------------------------ bounds
MaxRows == 5        \* longest batch handed to execute_batch
MaxK == 3           \* largest commit interval
PoolMax == 2        \* sessions of the pool (config pool_max)
MaxRetries == 3     \* largest ETL_CONFIG['max_retries']
MaxDelay == 2       \* largest ETL_CONFIG['retry_delay_seconds']

VARIABLES
  ORACLE_AVAILABLE,  \* the import guard of oracle_connection.py
  pool,              \* self.pool: "none" | "open" | "closed"
  leased,            \* sessions acquired from the pool and not yet released
  pending,           \* session -> rows inserted in its open transaction
  store,             \* rows committed in the store, in commit order
  connection,        \* get_connection's local: NoConn, MockConn or a session
  pc,                \* position of the caller
  op,                \* the operation running: "batch" | "query" | "dml"
  data,              \* execute_batch's data argument
  commit_interval,   \* execute_batch's commit_interval (after the default)
  i,                 \* execute_batch's loop index
  total_inserted,    \* execute_batch's counter
  err,               \* the exception in flight, NoErr if none
  log,               \* the driver calls of the current unit of work, in order
  reported_row,      \* the row of "Batch insert failed at row ..", 0 if none
  result,            \* what the call returned, NoResult if it has not
  raised,            \* the exception the call raised to its caller
  retry_attempts,    \* self.retry_attempts = ETL_CONFIG['max_retries']
  attempt,           \* attempts started by execute_query / execute_dml
  sleeps,            \* time.sleep(self.retry_delay) calls taken
  results,           \* the local results / rows_affected of an attempt
  retry_delay,       \* self.retry_delay = ETL_CONFIG['retry_delay_seconds']
  waited,            \* the seconds spent in time.sleep so far
  data_quality_rules,\* DATA_QUALITY_RULES: source name -> rule set
  sources,           \* the DataFrames extract_all_sources read, by source
  reports,           \* the validation results extract_data computed
  src_idx,           \* how many sources stage_data has started on
  connection_pool,   \* the global _connection_pool: "none" | "set"
  main_result,       \* what main returned: "none" | "true" | "false"
  close_calls,       \* calls of close_pool / close_connection_pool made
  closes,            \* the calls of self.pool.close(): TRUE closed the pool
  thread_pc,         \* position of each concurrent caller in get_connection
  connections,       \* get_connection's local connection of each caller
  errs,              \* whether an exception is in flight in each caller
  units,             \* units of work the concurrent callers have started
  val_df,            \* validate_data_quality's df argument
  val_source_name,   \* validate_data_quality's source_name argument
  validation_results \* what validate_data_quality returned

vars == <<ORACLE_AVAILABLE, pool, leased, pending, store, connection, pc, op,
          data, commit_interval, i, total_inserted, err, log, reported_row,
          result, raised, retry_attempts, attempt, sleeps, results,
          retry_delay, waited, data_quality_rules, sources, reports, src_idx,
          connection_pool, main_result, close_calls, closes, thread_pc,
          connections, errs, units, val_df, val_source_name,
          validation_results>>

retryVars == <<retry_attempts, attempt, sleeps, results, retry_delay, waited>>

closeVars == <<close_calls, closes>>

valVars == <<val_df, val_source_name, validation_results>>

callerVars == <<thread_pc, connections, errs, units>>

pipeVars == <<data_quality_rules, sources, reports, src_idx, connection_pool,
              main_result>>

\* ------------------------------------------------------------------ values
Sessions == 1..PoolMax
NoConn == 0
MockConn == -1
NoResult == -1
NoErr == [kind |-> "none", attempt |-> 0, at |-> 0]
NoRow == [src |-> "none", id |-> 0]

\* No concurrent callers: one caller drives the run.
NoCallers == << >>

Row(s, n) == [src |-> s, id |-> n]

\* The batch of a source: n rows, in file order.
Batch(s, n) == [k \in 1..n |-> Row(s, k)]

\* The exception raised by driver call `kind`: exceptions raised at different
\* places of a call are different objects.
Error(kind) == [kind |-> kind, attempt |-> attempt, at |-> Len(log) + 1]

\* A driver call: what was called, the source line calling it, whether it
\* returned (ok) or raised, and the row it carried.
Ev(o, ln, ok, r) == [op |-> o, line |-> ln, ok |-> ok, row |-> r]

Pooled == connection \in Sessions

\* A driver call on the mock connection never raises.
MayFail == connection # MockConn

\* ---------------------------------------------------- the store and sessions
\* connection.commit(): the rows of the open transaction become durable.
Committed(st, tx) == st \o tx

\* connection.rollback(): the rows of the open transaction are discarded.
RolledBack(tx) == << >>

\* Variant of line 68 with threaded=False: two callers racing on the free
\* list may be handed the same session.
AcquirableUnthreaded(ls) == Sessions

\* Lines 60-69 and 102: the pool is created with max=pool_max sessions and
\* threaded=True; acquire() hands out a session no caller holds.
Acquirable(ls) == Sessions \ ls

\* Where control goes when the with-block of the running operation is left.
AfterWith(o, e) ==
  IF e = NoErr
  THEN (IF o = "batch" THEN "eb_return" ELSE "rt_return")
  ELSE (IF o = "batch" THEN "eb_raise" ELSE "rt_except")

\* The first statement of the with-block of the running operation.
BodyEntry(o) == IF o = "batch" THEN "eb_cursor" ELSE "rt_cursor"

\* An exception leaves the with-block: it is thrown into the generator at
\* its yield (the mock branch has no handler around its yield).
ThrowInto(o, e) == IF connection = MockConn THEN AfterWith(o, e) ELSE "gc_except"

\* Variant of line 104 without the closing commit.
ResumeWithoutCommit(o) ==
  IF connection = MockConn THEN AfterWith(o, NoErr) ELSE "gc_finally"

\* The with-block ends normally: the generator is resumed after its yield.
Resume(o) == IF connection = MockConn THEN AfterWith(o, NoErr) ELSE "gc_commit"

\* ------------------------------------------------------------ get_connection
\* Lines 95-98: without the driver a MockConnection is yielded.
GcMock ==
  /\ pc = "gc_acquire"
  /\ ~ORACLE_AVAILABLE
  /\ connection' = MockConn
  /\ pc' = BodyEntry(op)
  /\ UNCHANGED <<valVars, closeVars, callerVars, pipeVars, retryVars, ORACLE_AVAILABLE, pool, leased, pending, store, op, data,
                 commit_interval, i, total_inserted, err, log, reported_row,
                 result, raised>>

\* Line 102: self.pool.acquire() hands out a free session.
GcAcquire ==
  /\ pc = "gc_acquire"
  /\ ORACLE_AVAILABLE
  /\ pool = "open"
  /\ \E s \in Acquirable(leased) :
       /\ connection' = s
       /\ leased' = leased \cup {s}
       /\ log' = Append(log, Ev("acquire", 102, TRUE, NoRow))
  /\ pc' = BodyEntry(op)
  /\ UNCHANGED <<valVars, closeVars, callerVars, pipeVars, retryVars, ORACLE_AVAILABLE, pool, pending, store, op, data,
                 commit_interval, i, total_inserted, err, reported_row,
                 result, raised>>

\* Line 102 raises (no pool object, pool closed, store unreachable):
\* connection stays None.
GcAcquireFail ==
  /\ pc = "gc_acquire"
  /\ ORACLE_AVAILABLE
  /\ err' = Error("acquire")
  /\ log' = Append(log, Ev("acquire", 102, FALSE, NoRow))
  /\ pc' = "gc_except"
  /\ UNCHANGED <<valVars, closeVars, callerVars, pipeVars, retryVars, ORACLE_AVAILABLE, pool, leased, pending, store, connection,
                 op, data, commit_interval, i, total_inserted, reported_row,
                 result, raised>>

\* Line 104: the closing commit after the with-block ended normally.
GcCommit ==
  /\ pc = "gc_commit"
  /\ \/ /\ store' = Committed(store, pending[connection])
        /\ pending' = [pending EXCEPT ![connection] = << >>]
        /\ log' = Append(log, Ev("commit", 104, TRUE, NoRow))
        /\ pc' = "gc_finally"
        /\ UNCHANGED err
     \/ /\ err' = Error("commit")
        /\ log' = Append(log, Ev("commit", 104, FALSE, NoRow))
        /\ pc' = "gc_except"
        /\ UNCHANGED <<store, pending>>
  /\ UNCHANGED <<valVars, closeVars, callerVars, pipeVars, retryVars, ORACLE_AVAILABLE, pool, leased, connection, op, data,
                 commit_interval, i, total_inserted, reported_row, result,
                 raised>>

\* Variant of line 106 that never rolls back.
RollbackNever(c) == FALSE

\* Line 106: the except clause rolls back when a connection was acquired.
RollbackDue(c) == c # NoConn

\* Lines 105-109: rollback if a connection was acquired, then re-raise; a
\* rollback that raises replaces the exception in flight.
GcExcept ==
  /\ pc = "gc_except"
  /\ \/ /\ ~RollbackDue(connection)
        /\ UNCHANGED <<pending, err, log>>
     \/ /\ RollbackDue(connection)
        /\ pending' = [pending EXCEPT ![connection] = RolledBack(@)]
        /\ log' = Append(log, Ev("rollback", 107, TRUE, NoRow))
        /\ UNCHANGED err
     \/ /\ RollbackDue(connection)
        /\ err' = Error("rollback")
        /\ log' = Append(log, Ev("rollback", 107, FALSE, NoRow))
        /\ UNCHANGED pending
  /\ pc' = "gc_finally"
  /\ UNCHANGED <<valVars, closeVars, callerVars, pipeVars, retryVars, ORACLE_AVAILABLE, pool, leased, store, connection, op, data,
                 commit_interval, i, total_inserted, reported_row, result,
                 raised>>

\* Variant of lines 110-112 that releases on the clean path only.
ReleaseOnSuccess(c, e) == c # NoConn /\ e = NoErr

\* Whether the finally clause of get_connection releases (line 111).
ReleaseDue(c, e) == c # NoConn

\* Lines 110-112: release the session; the driver rolls back whatever
\* transaction is still open on a session returned to the pool.
GcFinally ==
  /\ pc = "gc_finally"
  /\ IF ReleaseDue(connection, err)
     THEN /\ leased' = leased \ {connection}
          /\ pending' = [pending EXCEPT ![connection] = << >>]
          /\ log' = Append(log, Ev("release", 112, TRUE, NoRow))
     ELSE UNCHANGED <<leased, pending, log>>
  /\ connection' = NoConn
  /\ pc' = AfterWith(op, err)
  /\ UNCHANGED <<valVars, closeVars, callerVars, pipeVars, retryVars, ORACLE_AVAILABLE, pool, store, op, data, commit_interval, i,
                 total_inserted, err, reported_row, result, raised>>

\* ------------------------------------------------------------- execute_batch
\* Lines 190-191: a missing (None or 0) interval takes the configured one.
EffectiveInterval(arg, dflt) == IF arg = 0 THEN dflt ELSE arg

\* Variants of line 203 with the interval boundary misplaced.
CommitDueShifted(n, k) == n % k = 1

CommitDueLate(n, k) == n % (k + 1) = 0

CommitDueEveryRow(n, k) == TRUE

\* Line 203: an intermediate commit is due after row n.
CommitDue(n, k) == n % k = 0

\* Variant of line 201 that counts a row twice.
CountedTwice(n) == n + 2

\* Line 201: the counter after one more executed insert.
Counted(n) == n + 1

\* Line 213: the row the failure message names.
FailedRow(n) == n + 1

\* Variant of line 199 that walks the batch backwards.
RowAtReversed(d, n) == d[Len(d) + 1 - n]

\* Variant of line 199 that hands every row to the cursor twice.
RowAtRepeated(d, n) == d[(n + 1) \div 2]

\* Line 199: enumerate(data, 1) pairs the index n with the n-th row.
RowAt(d, n) == d[n]

\* Line 196: conn.cursor(), outside the try of lines 198-216.
EbCursor ==
  /\ pc = "eb_cursor"
  /\ \/ /\ log' = Append(log, Ev("cursor", 196, TRUE, NoRow))
        /\ pc' = "eb_loop"
        /\ UNCHANGED err
     \/ /\ MayFail
        /\ err' = Error("cursor")
        /\ log' = Append(log, Ev("cursor", 196, FALSE, NoRow))
        /\ pc' = ThrowInto(op, err')
  /\ UNCHANGED <<valVars, closeVars, callerVars, pipeVars, retryVars, ORACLE_AVAILABLE, pool, leased, pending, store, connection,
                 op, data, commit_interval, i, total_inserted, reported_row,
                 result, raised>>

\* Lines 199-203: the next row of enumerate(data, 1) is inserted and counted.
EbExecute ==
  /\ pc = "eb_loop"
  /\ i < Len(data)
  /\ i' = i + 1
  /\ \/ /\ log' = Append(log, Ev("insert", 200, TRUE, RowAt(data, i')))
        /\ pending' = IF Pooled
                      THEN [pending EXCEPT ![connection] = Append(@, RowAt(data, i'))]
                      ELSE pending
        /\ total_inserted' = Counted(total_inserted)
        /\ pc' = IF CommitDue(i', commit_interval) THEN "eb_commit" ELSE "eb_loop"
        /\ UNCHANGED err
     \/ /\ MayFail
        /\ err' = Error("insert")
        /\ log' = Append(log, Ev("insert", 200, FALSE, RowAt(data, i')))
        /\ pc' = "eb_except"
        /\ UNCHANGED <<pending, total_inserted>>
  /\ UNCHANGED <<valVars, closeVars, callerVars, pipeVars, retryVars, ORACLE_AVAILABLE, pool, leased, store, connection, op, data,
                 commit_interval, reported_row, result, raised>>

\* Line 204: the intermediate commit.
EbCommit ==
  /\ pc = "eb_commit"
  /\ \/ /\ store' = IF Pooled THEN Committed(store, pending[connection]) ELSE store
        /\ pending' = IF Pooled THEN [pending EXCEPT ![connection] = << >>]
                      ELSE pending
        /\ log' = Append(log, Ev("commit", 204, TRUE, NoRow))
        /\ pc' = "eb_loop"
        /\ UNCHANGED err
     \/ /\ MayFail
        /\ err' = Error("commit")
        /\ log' = Append(log, Ev("commit", 204, FALSE, NoRow))
        /\ pc' = "eb_except"
        /\ UNCHANGED <<store, pending>>
  /\ UNCHANGED <<valVars, closeVars, callerVars, pipeVars, retryVars, ORACLE_AVAILABLE, pool, leased, connection, op, data,
                 commit_interval, i, total_inserted, reported_row, result,
                 raised>>

\* Line 208: the final commit, once the loop is exhausted.
EbFinalCommit ==
  /\ pc = "eb_loop"
  /\ i = Len(data)
  /\ \/ /\ store' = IF Pooled THEN Committed(store, pending[connection]) ELSE store
        /\ pending' = IF Pooled THEN [pending EXCEPT ![connection] = << >>]
                      ELSE pending
        /\ log' = Append(log, Ev("commit", 208, TRUE, NoRow))
        /\ pc' = "eb_finally"
        /\ UNCHANGED err
     \/ /\ MayFail
        /\ err' = Error("commit")
        /\ log' = Append(log, Ev("commit", 208, FALSE, NoRow))
        /\ pc' = "eb_except"
        /\ UNCHANGED <<store, pending>>
  /\ UNCHANGED <<valVars, closeVars, callerVars, pipeVars, retryVars, ORACLE_AVAILABLE, pool, leased, connection, op, data,
                 commit_interval, i, total_inserted, reported_row, result,
                 raised>>

\* Lines 211-214: roll back, name the failing row, re-raise.  A rollback that
\* raises replaces the exception and the message of line 213 is never written.
EbExcept ==
  /\ pc = "eb_except"
  /\ \/ /\ pending' = [pending EXCEPT ![connection] = RolledBack(@)]
        /\ log' = Append(log, Ev("rollback", 212, TRUE, NoRow))
        /\ reported_row' = FailedRow(total_inserted)
        /\ UNCHANGED err
     \/ /\ err' = Error("rollback")
        /\ log' = Append(log, Ev("rollback", 212, FALSE, NoRow))
        /\ UNCHANGED <<pending, reported_row>>
  /\ pc' = "eb_finally"
  /\ UNCHANGED <<valVars, closeVars, callerVars, pipeVars, retryVars, ORACLE_AVAILABLE, pool, leased, store, connection, op, data,
                 commit_interval, i, total_inserted, result, raised>>

\* Lines 215-216: cursor.close(), then the with-block is left.
EbFinally ==
  /\ pc = "eb_finally"
  /\ \/ /\ log' = Append(log, Ev("close", 216, TRUE, NoRow))
        /\ pc' = IF err = NoErr THEN Resume(op) ELSE ThrowInto(op, err)
        /\ UNCHANGED err
     \/ /\ MayFail
        /\ err' = Error("close")
        /\ log' = Append(log, Ev("close", 216, FALSE, NoRow))
        /\ pc' = ThrowInto(op, err')
  /\ UNCHANGED <<valVars, closeVars, callerVars, pipeVars, retryVars, ORACLE_AVAILABLE, pool, leased, pending, store, connection,
                 op, data, commit_interval, i, total_inserted, reported_row,
                 result, raised>>

\* Line 218: the count is returned.
EbReturn ==
  /\ pc = "eb_return"
  /\ result' = total_inserted
  /\ pc' = "returned"
  /\ UNCHANGED <<valVars, closeVars, callerVars, pipeVars, retryVars, ORACLE_AVAILABLE, pool, leased, pending, store, connection,
                 op, data, commit_interval, i, total_inserted, err, log,
                 reported_row, raised>>

\* The exception leaves execute_batch: nothing is returned.
EbRaise ==
  /\ pc = "eb_raise"
  /\ raised' = err
  /\ pc' = "raised"
  /\ UNCHANGED <<valVars, closeVars, callerVars, pipeVars, retryVars, ORACLE_AVAILABLE, pool, leased, pending, store, connection,
                 op, data, commit_interval, i, total_inserted, err, log,
                 reported_row, result>>

ExecuteBatch ==
  \/ EbCursor \/ EbExecute \/ EbCommit \/ EbFinalCommit \/ EbExcept
  \/ EbFinally \/ EbReturn \/ EbRaise

GetConnection ==
  \/ GcMock \/ GcAcquire \/ GcAcquireFail \/ GcCommit \/ GcExcept \/ GcFinally

\* ------------------------------------------- execute_query and execute_dml
\* Variant of lines 143 and 171 that is off by one.
RetryGoesOnOnceMore(a, n) == a < n

\* Lines 143 and 171: after failed attempt a (0-based) of n, sleep and go on.
RetryGoesOn(a, n) == a < n - 1

\* Variant of lines 144 and 172 whose delay grows with the time already waited.
SleptBackoff(w, d) == w + d + w

\* Lines 144 and 172: time.sleep(self.retry_delay) adds the fixed delay.
Slept(w, d) == w + d

\* Lines 134-136: what the cursor hands back for a SELECT; MockCursor hands
\* back an empty result.
Fetched(st, tx) == Len(st) + Len(tx)

\* Line 165: cursor.rowcount after the statement; MockCursor.rowcount is 0.
RowCount == IF Pooled THEN 1 ELSE 0

\* The row the DML statement writes.
DmlRow == Row("dml", 1)

\* Lines 127 and 160: the next attempt of range(self.retry_attempts) starts.
RtAttempt ==
  /\ pc = "rt_loop"
  /\ attempt < retry_attempts
  /\ attempt' = attempt + 1
  /\ err' = NoErr
  /\ log' = <<Ev("attempt", IF op = "query" THEN 127 ELSE 160, TRUE, NoRow)>>
  /\ pc' = "gc_acquire"
  /\ UNCHANGED <<valVars, closeVars, callerVars, pipeVars, ORACLE_AVAILABLE, pool, leased, pending, store, connection,
                 op, data, commit_interval, i, total_inserted, reported_row,
                 result, raised, retry_attempts, sleeps, results,
                 retry_delay, waited>>

\* range(self.retry_attempts) is exhausted without a return or a raise: the
\* function body ends and None is returned.
RtFallOff ==
  /\ pc = "rt_loop"
  /\ attempt >= retry_attempts
  /\ result' = NoResult
  /\ pc' = "returned"
  /\ UNCHANGED <<valVars, closeVars, callerVars, pipeVars, retryVars, ORACLE_AVAILABLE, pool, leased, pending, store,
                 connection, op, data, commit_interval, i, total_inserted,
                 err, log, reported_row, raised>>

\* Lines 130 and 163: conn.cursor().
RtCursor ==
  /\ pc = "rt_cursor"
  /\ \/ /\ log' = Append(log, Ev("cursor", IF op = "query" THEN 130 ELSE 163, TRUE, NoRow))
        /\ pc' = "rt_execute"
        /\ UNCHANGED err
     \/ /\ MayFail
        /\ err' = Error("cursor")
        /\ log' = Append(log, Ev("cursor", IF op = "query" THEN 130 ELSE 163, FALSE, NoRow))
        /\ pc' = ThrowInto(op, err')
  /\ UNCHANGED <<valVars, closeVars, callerVars, pipeVars, retryVars, ORACLE_AVAILABLE, pool, leased, pending, store,
                 connection, op, data, commit_interval, i, total_inserted,
                 reported_row, result, raised>>

\* Lines 131-136: the SELECT is executed and fetched.
RtQuery ==
  /\ pc = "rt_execute"
  /\ op = "query"
  /\ \/ /\ log' = Append(log, Ev("select", 131, TRUE, NoRow))
        /\ results' = IF Pooled THEN Fetched(store, pending[connection]) ELSE 0
        /\ pc' = "rt_close"
        /\ UNCHANGED err
     \/ /\ MayFail
        /\ err' = Error("select")
        /\ log' = Append(log, Ev("select", 131, FALSE, NoRow))
        /\ pc' = ThrowInto(op, err')
        /\ UNCHANGED results
  /\ UNCHANGED <<valVars, closeVars, callerVars, pipeVars, ORACLE_AVAILABLE, pool, leased, pending, store, connection,
                 op, data, commit_interval, i, total_inserted, reported_row,
                 result, raised, retry_attempts, attempt, sleeps,
                 retry_delay, waited>>

\* Lines 164-165: the DML statement is executed and its row count read.
RtDml ==
  /\ pc = "rt_execute"
  /\ op = "dml"
  /\ \/ /\ log' = Append(log, Ev("insert", 164, TRUE, DmlRow))
        /\ pending' = IF Pooled
                      THEN [pending EXCEPT ![connection] = Append(@, DmlRow)]
                      ELSE pending
        /\ results' = RowCount
        /\ pc' = "rt_close"
        /\ UNCHANGED err
     \/ /\ MayFail
        /\ err' = Error("insert")
        /\ log' = Append(log, Ev("insert", 164, FALSE, DmlRow))
        /\ pc' = ThrowInto(op, err')
        /\ UNCHANGED <<pending, results>>
  /\ UNCHANGED <<valVars, closeVars, callerVars, pipeVars, ORACLE_AVAILABLE, pool, leased, store, connection,
                 op, data, commit_interval, i, total_inserted, reported_row,
                 result, raised, retry_attempts, attempt, sleeps,
                 retry_delay, waited>>

\* Lines 138-139 and 166-167: cursor.close(), then return from inside the
\* with-block, which resumes the generator.
RtClose ==
  /\ pc = "rt_close"
  /\ \/ /\ log' = Append(log, Ev("close", IF op = "query" THEN 138 ELSE 166, TRUE, NoRow))
        /\ pc' = Resume(op)
        /\ UNCHANGED err
     \/ /\ MayFail
        /\ err' = Error("close")
        /\ log' = Append(log, Ev("close", IF op = "query" THEN 138 ELSE 166, FALSE, NoRow))
        /\ pc' = ThrowInto(op, err')
  /\ UNCHANGED <<valVars, closeVars, callerVars, pipeVars, retryVars, ORACLE_AVAILABLE, pool, leased, pending, store,
                 connection, op, data, commit_interval, i, total_inserted,
                 reported_row, result, raised>>

\* The return statement of lines 139 and 167 completes.
RtReturn ==
  /\ pc = "rt_return"
  /\ result' = results
  /\ pc' = "returned"
  /\ UNCHANGED <<valVars, closeVars, callerVars, pipeVars, retryVars, ORACLE_AVAILABLE, pool, leased, pending, store,
                 connection, op, data, commit_interval, i, total_inserted,
                 err, log, reported_row, raised>>

\* Lines 141-147 and 169-175: sleep and retry, or re-raise after the last
\* attempt.
RtExcept ==
  /\ pc = "rt_except"
  /\ IF RetryGoesOn(attempt - 1, retry_attempts)
     THEN /\ sleeps' = sleeps + 1
          /\ waited' = Slept(waited, retry_delay)
          /\ pc' = "rt_loop"
          /\ UNCHANGED raised
     ELSE /\ raised' = err
          /\ pc' = "raised"
          /\ UNCHANGED <<sleeps, waited>>
  /\ UNCHANGED <<valVars, closeVars, callerVars, pipeVars, ORACLE_AVAILABLE, pool, leased, pending, store, connection,
                 op, data, commit_interval, i, total_inserted, err, log,
                 reported_row, result, retry_attempts, attempt,
                 results, retry_delay>>

ExecuteRetried ==
  \/ RtAttempt \/ RtFallOff \/ RtCursor \/ RtQuery \/ RtDml \/ RtClose
  \/ RtReturn \/ RtExcept

\* ------------------------------------------------- validate_data_quality
\* Cell values of a DataFrame read by pd.read_csv: a number, a missing value
\* (NaN) or a string that is no number.
Num(n) == [t |-> "num", v |-> n]

Null == [t |-> "null", v |-> 0]

Str(n) == [t |-> "str", v |-> n]

SourceNames == {"raw_daily", "raw_sales", "raw_meta"}

\* Variant of lines 143-145 that reads raw_sales first.
SourceOrderSwapped == <<"raw_sales", "raw_daily", "raw_meta">>

\* Lines 143-145 of data_extraction.py: the order the sources dict is filled
\* in, which is the order both loops over sources.items() follow.
SourceOrder == <<"raw_daily", "raw_sales", "raw_meta">>

\* df[col] as a sequence of cells.
Column(df, col) == [k \in 1..Len(df.rows) |-> df.rows[k][col]]

Msg(col, check, count) == [col |-> col, check |-> check, count |-> count]

\* Line 220: rows pd.to_numeric(errors='coerce') turns into NaN.
NonNumeric(df, col) ==
  Cardinality({k \in 1..Len(df.rows) : Column(df, col)[k].t # "num"})

\* Line 230: rows with df[col] < 0 (NaN < 0 is False).
Negative(df, col) ==
  Cardinality({k \in 1..Len(df.rows) :
                 Column(df, col)[k].t = "num" /\ Column(df, col)[k].v < 0})

\* Line 240: rows outside [min_val, max_val].
OutOfRange(df, col, lo, hi) ==
  Cardinality({k \in 1..Len(df.rows) :
                 /\ Column(df, col)[k].t = "num"
                 /\ (Column(df, col)[k].v < lo \/ Column(df, col)[k].v > hi)})

\* Line 250: rows whose value is not one of valid_values.
Invalid(df, col, valid) ==
  Cardinality({k \in 1..Len(df.rows) : Column(df, col)[k] \notin valid})

\* Lines 230 and 240 compare the column with a number: a column holding a
\* string makes the comparison raise TypeError.
Incomparable(df, col) == \E k \in 1..Len(df.rows) : df.rows[k][col].t = "str"

Present(df, col) == col \in df.columns

\* Lines 216-224.
NumericWarnings(df, rules) ==
  LET m == [k \in 1..Len(rules.numeric_columns) |->
              LET col == rules.numeric_columns[k]
              IN Msg(col, "non-numeric",
                     IF Present(df, col) THEN NonNumeric(df, col) ELSE 0)]
  IN SelectSeq(m, LAMBDA x : x.count > 0)

\* Lines 226-234.
PositiveErrors(df, rules) ==
  LET m == [k \in 1..Len(rules.positive_columns) |->
              LET col == rules.positive_columns[k]
              IN Msg(col, "negative",
                     IF Present(df, col) THEN Negative(df, col) ELSE 0)]
  IN SelectSeq(m, LAMBDA x : x.count > 0)

\* Lines 236-244.
RangeWarnings(df, rules) ==
  LET m == [k \in 1..Len(rules.range_checks) |->
              LET rc == rules.range_checks[k]
              IN Msg(rc.col, "out of range",
                     IF Present(df, rc.col)
                     THEN OutOfRange(df, rc.col, rc.min_val, rc.max_val) ELSE 0)]
  IN SelectSeq(m, LAMBDA x : x.count > 0)

\* Lines 246-254.
CategoricalErrors(df, rules) ==
  LET m == [k \in 1..Len(rules.categorical_checks) |->
              LET cc == rules.categorical_checks[k]
              IN Msg(cc.col, "invalid",
                     IF Present(df, cc.col)
                     THEN Invalid(df, cc.col, cc.valid_values) ELSE 0)]
  IN SelectSeq(m, LAMBDA x : x.count > 0)

\* The comparisons of lines 230 and 240 raise.
ValidateRaises(df, rules) ==
  \/ \E k \in 1..Len(rules.positive_columns) :
       /\ Present(df, rules.positive_columns[k])
       /\ Incomparable(df, rules.positive_columns[k])
  \/ \E k \in 1..Len(rules.range_checks) :
       /\ Present(df, rules.range_checks[k].col)
       /\ Incomparable(df, rules.range_checks[k].col)

\* Variant of lines 202-212 that reports the absence of rules as a warning.
EmptyReportFlagged(df, source_name) ==
  [source |-> source_name, total_rows |-> Len(df.rows), issues |-> << >>,
   warnings |-> <<Msg("", "no rules", 0)>>, errors |-> << >>, raised |-> FALSE]

\* Lines 202-208: the results dictionary as created.
EmptyReport(df, source_name) ==
  [source |-> source_name, total_rows |-> Len(df.rows), issues |-> << >>,
   warnings |-> << >>, errors |-> << >>, raised |-> FALSE]

\* Lines 189-260.  allrules maps the source names that have rules to them.
validate_data_quality(df, source_name, allrules) ==
  IF source_name \notin DOMAIN allrules
  THEN EmptyReport(df, source_name)
  ELSE LET rules == allrules[source_name]
           w == NumericWarnings(df, rules) \o RangeWarnings(df, rules)
           e == PositiveErrors(df, rules) \o CategoricalErrors(df, rules)
       IN IF ValidateRaises(df, rules)
          THEN [EmptyReport(df, source_name) EXCEPT !.raised = TRUE]
          ELSE [EmptyReport(df, source_name) EXCEPT
                  !.warnings = w, !.errors = e, !.issues = w \o e]

\* Lines 43-48 and 80-85 of data_extraction.py: extract_raw_daily and
\* extract_raw_sales raise ValueError when a required column is missing.
MissingColumns(df, rules) ==
  {rules.required_columns[k] : k \in 1..Len(rules.required_columns)} \ df.columns

ExtractRaises(srcs, allrules) ==
  \E s \in {"raw_daily", "raw_sales"} : MissingColumns(srcs[s], allrules[s]) # {}

\* No DataFrame read, no report computed.
NoFrame == [columns |-> {}, rows |-> << >>]

NoSources == [s \in SourceNames |-> NoFrame]

NoReports == [s \in SourceNames |-> EmptyReport(NoFrame, s)]

NoRules == [s \in {} |-> 0]

\* ------------------------------------------------ one call on an open pool
\* The rows a store may hold before the call.
OldRows == {<< >>, <<Row("old", 1)>>, <<Row("old", 1), Row("old", 2)>>}

\* create_pool has returned True (with the driver the pool is open, without
\* it self.pool stays None), no session is leased; the caller calls
\* execute_batch, execute_query or execute_dml once.
Init ==
  /\ ORACLE_AVAILABLE \in BOOLEAN
  /\ pool = IF ORACLE_AVAILABLE THEN "open" ELSE "none"
  /\ leased = {}
  /\ pending = [s \in Sessions |-> << >>]
  /\ connection = NoConn
  /\ op \in {"batch", "query", "dml"}
  /\ IF op = "batch"
     THEN /\ \E n \in 0..MaxRows : data = Batch("raw_daily", n)
          /\ \E arg \in 0..MaxK, dflt \in 1..MaxK :
               commit_interval = EffectiveInterval(arg, dflt)
          /\ store = << >>
          /\ retry_attempts \in 0..MaxRetries
          /\ retry_delay = 1
          /\ pc = "gc_acquire"
     ELSE /\ data = << >>
          /\ commit_interval = 1
          /\ store \in OldRows
          /\ retry_attempts \in 0..MaxRetries
          /\ retry_delay \in 1..MaxDelay
          /\ pc = "rt_loop"
  /\ i = 0
  /\ total_inserted = 0
  /\ err = NoErr
  /\ log = << >>
  /\ reported_row = 0
  /\ result = NoResult
  /\ raised = NoErr
  /\ attempt = 0
  /\ sleeps = 0
  /\ waited = 0
  /\ results = NoResult
  /\ data_quality_rules = NoRules
  /\ sources = NoSources
  /\ reports = NoReports
  /\ src_idx = 0
  /\ connection_pool = "set"
  /\ main_result = "none"
  /\ close_calls = 0
  /\ closes = << >>
  /\ thread_pc = NoCallers
  /\ connections = NoCallers
  /\ errs = NoCallers
  /\ units = 0
  /\ val_df = NoFrame
  /\ val_source_name = "none"
  /\ validation_results = EmptyReport(NoFrame, "none")

Next == ExecuteBatch \/ ExecuteRetried \/ GetConnection

Spec == Init /\ [][Next]_vars

\* ------------------------------------------------ the pipeline of main()
MaxSrcRows == 2     \* longest source file of a pipeline run

\* Line 84 of data_analysis.py: the rows of the DataFrame as tuples, in
\* DataFrame order.
DataTuples(s, df) == [k \in 1..Len(df.rows) |-> Row(s, k)]

\* A rule set over the one column of the source files of a pipeline run.
QtyRules ==
  [required_columns |-> <<"qty">>, numeric_columns |-> <<"qty">>,
   positive_columns |-> <<"qty">>,
   range_checks |-> <<[col |-> "qty", min_val |-> 0, max_val |-> 1]>>,
   categorical_checks |-> << >>]

\* The rule registries of a pipeline run: raw_daily and raw_sales always have
\* rules (extract_raw_daily and extract_raw_sales index them), raw_meta may.
RuleSets ==
  {[s \in SourceNames |-> QtyRules],
   [s \in {"raw_daily", "raw_sales"} |-> QtyRules]}

\* The source files of a pipeline run: n rows of one column, at most the
\* first of them negative.
Frames ==
  {[columns |-> {"qty"},
    rows |-> [k \in 1..n |-> [qty |-> IF k = bad THEN Num(-1) ELSE Num(1)]]] :
     n \in 0..MaxSrcRows, bad \in 0..1}

\* extract_data, lines 34-67: read the three files, validate each, log what
\* was found and return the sources whatever the reports say.
MainExtract ==
  /\ pc = "main_extract"
  /\ LET rep == [s \in SourceNames |->
                   validate_data_quality(sources[s], s, data_quality_rules)]
     IN IF \/ ExtractRaises(sources, data_quality_rules)
           \/ \E s \in SourceNames : rep[s].raised
        THEN /\ main_result' = "false"
             /\ pc' = "main_done"
             /\ UNCHANGED reports
        ELSE /\ reports' = rep
             /\ pc' = "stage_pool"
             /\ UNCHANGED main_result
  /\ UNCHANGED <<valVars, closeVars, callerVars, retryVars, ORACLE_AVAILABLE, pool, leased, pending, store,
                 connection, op, data, commit_interval, i, total_inserted,
                 err, log, reported_row, result, raised, data_quality_rules,
                 sources, src_idx, connection_pool>>

\* stage_data line 76, get_connection_pool lines 316-322 and create_pool
\* lines 51-76: the global pool is created; create_pool's result is not
\* looked at.  Without the driver, or when SessionPool raises, self.pool
\* stays None.
StageGetPool ==
  /\ pc = "stage_pool"
  /\ connection_pool = "none"
  /\ connection_pool' = "set"
  /\ \/ /\ ORACLE_AVAILABLE
        /\ pool' = "open"
     \/ pool' = "none"
  /\ pc' = "stage_loop"
  /\ UNCHANGED <<valVars, closeVars, callerVars, retryVars, ORACLE_AVAILABLE, leased, pending, store,
                 connection, op, data, commit_interval, i, total_inserted,
                 err, log, reported_row, result, raised, data_quality_rules,
                 sources, reports, src_idx, main_result>>

\* stage_data lines 80-106: the next source of sources.items() is handed to
\* execute_batch.
StageSource ==
  /\ pc \in {"stage_loop", "returned"}
  /\ src_idx < Len(SourceOrder)
  /\ src_idx' = src_idx + 1
  /\ data' = DataTuples(SourceOrder[src_idx'], sources[SourceOrder[src_idx']])
  \* batch_size = ETL_CONFIG['commit_interval'] is passed as commit_interval,
  \* the value execute_batch would also default to.
  /\ commit_interval' = EffectiveInterval(commit_interval, commit_interval)
  /\ op' = "batch"
  /\ i' = 0
  /\ total_inserted' = 0
  /\ err' = NoErr
  /\ log' = << >>
  /\ result' = NoResult
  /\ pc' = "gc_acquire"
  /\ UNCHANGED <<valVars, closeVars, callerVars, retryVars, ORACLE_AVAILABLE, pool, leased, pending, store,
                 connection, reported_row, raised, data_quality_rules,
                 sources, reports, connection_pool, main_result>>

\* Lines 80-85 and 329-331 of oracle_connection.py: close_connection_pool
\* closes the pool if there is one (a close that raises is logged) and
\* resets the global.
ClosedPool(p) == IF p = "open" THEN {"closed", "open"} ELSE {p}

\* Line 80: close_pool calls self.pool.close() whenever self.pool is set;
\* close_pool never resets self.pool.
PoolSet(p) == p # "none"

\* Lines 80-85: the calls of self.pool.close() after close_pool ran on a
\* pool in state p and left it in state q.
ClosesAfter(cl, p, q) ==
  IF PoolSet(p) THEN Append(cl, p = "open" /\ q = "closed") ELSE cl

\* stage_data lines 110-117 and main lines 153-164: every source is staged,
\* the pool is closed, transform_and_load runs and main returns True.
StageFinish ==
  /\ pc \in {"stage_loop", "returned"}
  /\ src_idx = Len(SourceOrder)
  /\ pool' \in ClosedPool(pool)
  /\ closes' = ClosesAfter(closes, pool, pool')
  /\ close_calls' = close_calls + 1
  /\ connection_pool' = "none"
  /\ main_result' = "true"
  /\ pc' = "main_done"
  /\ UNCHANGED <<valVars, callerVars, retryVars, ORACLE_AVAILABLE, leased, pending, store,
                 connection, op, data, commit_interval, i, total_inserted,
                 err, log, reported_row, result, raised, data_quality_rules,
                 sources, reports, src_idx>>

\* stage_data lines 112-117 and main lines 166-173: execute_batch raised,
\* the pool is closed, the exception reaches main, which returns False.
StageFail ==
  /\ pc = "raised"
  /\ pool' \in ClosedPool(pool)
  /\ closes' = ClosesAfter(closes, pool, pool')
  /\ close_calls' = close_calls + 1
  /\ connection_pool' = "none"
  /\ main_result' = "false"
  /\ pc' = "main_done"
  /\ UNCHANGED <<valVars, callerVars, retryVars, ORACLE_AVAILABLE, leased, pending, store,
                 connection, op, data, commit_interval, i, total_inserted,
                 err, log, reported_row, result, raised, data_quality_rules,
                 sources, reports, src_idx>>

Main == MainExtract \/ StageGetPool \/ StageSource \/ StageFinish \/ StageFail

\* main() starts: the files are on disk, nothing is staged, no pool exists.
InitPipeline ==
  /\ ORACLE_AVAILABLE \in BOOLEAN
  /\ pool = "none"
  /\ leased = {}
  /\ pending = [s \in Sessions |-> << >>]
  /\ store = << >>
  /\ connection = NoConn
  /\ op = "batch"
  /\ data = << >>
  /\ commit_interval \in 1..MaxK
  /\ i = 0
  /\ total_inserted = 0
  /\ err = NoErr
  /\ log = << >>
  /\ reported_row = 0
  /\ result = NoResult
  /\ raised = NoErr
  /\ retry_attempts = 1
  /\ retry_delay = 1
  /\ attempt = 0
  /\ sleeps = 0
  /\ waited = 0
  /\ results = NoResult
  /\ data_quality_rules \in RuleSets
  /\ sources \in [SourceNames -> Frames]
  /\ reports = NoReports
  /\ src_idx = 0
  /\ connection_pool = "none"
  /\ main_result = "none"
  /\ close_calls = 0
  /\ closes = << >>
  /\ thread_pc = NoCallers
  /\ connections = NoCallers
  /\ errs = NoCallers
  /\ units = 0
  /\ val_df = NoFrame
  /\ val_source_name = "none"
  /\ validation_results = EmptyReport(NoFrame, "none")
  /\ pc = "main_extract"

NextPipeline == Main \/ ExecuteBatch \/ GetConnection

SpecPipeline == InitPipeline /\ [][NextPipeline]_vars

\* ------------------------------------------ concurrent callers on one pool
MaxCallers == 3     \* callers running units of work at the same time
MaxUnits == 3       \* units of work started in a run
MaxCloses == 2      \* close calls made in a run

Callers == 1..MaxCallers

\* The exception raised inside a caller.
CallerErr == [kind |-> "caller", attempt |-> 0, at |-> 0]

\* Line 82: self.pool.close() closes an open pool, or raises (it raises
\* while a session is leased); the pool is then as it was.
PoolClose(p, ls) == IF ls = {} THEN ClosedPool(p) ELSE {p}

\* get_connection_pool lines 316-322 with create_pool lines 51-76: the one
\* pool object of the run is constructed and create_pool called on it.
GetConnectionPool ==
  /\ pc = "pool_start"
  /\ connection_pool = "none"
  /\ connection_pool' = "set"
  /\ \/ /\ ORACLE_AVAILABLE
        /\ pool' = "open"
     \/ pool' = "none"
  /\ pc' = "pool_running"
  /\ UNCHANGED <<valVars, closeVars, retryVars, ORACLE_AVAILABLE, leased, pending,
                 store, connection, op, data, commit_interval, i,
                 total_inserted, err, log, reported_row, result, raised,
                 data_quality_rules, sources, reports, src_idx, main_result,
                 callerVars>>

\* close_pool lines 78-85, called on the pool object.
ClosePool ==
  /\ pc = "pool_running"
  /\ close_calls < MaxCloses
  /\ close_calls' = close_calls + 1
  /\ pool' \in PoolClose(pool, leased)
  /\ closes' = ClosesAfter(closes, pool, pool')
  /\ UNCHANGED <<valVars, callerVars, pipeVars, retryVars, ORACLE_AVAILABLE, leased,
                 pending, store, connection, pc, op, data, commit_interval, i,
                 total_inserted, err, log, reported_row, result, raised>>

\* close_connection_pool lines 325-331: close_pool on the global, if set,
\* and reset of the global.
CloseConnectionPool ==
  /\ pc = "pool_running"
  /\ close_calls < MaxCloses
  /\ close_calls' = close_calls + 1
  /\ IF connection_pool = "set"
     THEN /\ pool' \in PoolClose(pool, leased)
          /\ closes' = ClosesAfter(closes, pool, pool')
          /\ connection_pool' = "none"
     ELSE UNCHANGED <<pool, closes, connection_pool>>
  /\ UNCHANGED <<valVars, callerVars, retryVars, ORACLE_AVAILABLE, leased, pending,
                 store, connection, pc, op, data, commit_interval, i,
                 total_inserted, err, log, reported_row, result, raised,
                 data_quality_rules, sources, reports, src_idx, main_result>>

\* The row a caller writes in its unit of work.
CallerRow(c) == Row("caller", c)

\* Lines 95-98: without the driver every caller gets a MockConnection.
CallerMock(c) ==
  /\ pc = "pool_running" /\ thread_pc[c] = "idle" /\ units < MaxUnits
  /\ ~ORACLE_AVAILABLE
  /\ connections' = [connections EXCEPT ![c] = MockConn]
  /\ thread_pc' = [thread_pc EXCEPT ![c] = "body"]
  /\ units' = units + 1
  /\ UNCHANGED <<valVars, closeVars, pipeVars, retryVars, ORACLE_AVAILABLE, pool,
                 leased, pending, store, connection, pc, op, data,
                 commit_interval, i, total_inserted, err, log, reported_row,
                 result, raised, errs>>

\* Line 102: self.pool.acquire() hands the caller a session.
CallerAcquire(c) ==
  /\ pc = "pool_running" /\ thread_pc[c] = "idle" /\ units < MaxUnits
  /\ ORACLE_AVAILABLE
  /\ pool = "open"
  /\ \E s \in Acquirable(leased) :
       /\ connections' = [connections EXCEPT ![c] = s]
       /\ leased' = leased \cup {s}
  /\ thread_pc' = [thread_pc EXCEPT ![c] = "body"]
  /\ units' = units + 1
  /\ UNCHANGED <<valVars, closeVars, pipeVars, retryVars, ORACLE_AVAILABLE, pool,
                 pending, store, connection, pc, op, data, commit_interval, i,
                 total_inserted, err, log, reported_row, result, raised,
                 errs>>

\* Line 102 raises (no pool object, pool closed, no session free, store
\* unreachable): the caller's connection stays None.
CallerAcquireFail(c) ==
  /\ pc = "pool_running" /\ thread_pc[c] = "idle" /\ units < MaxUnits
  /\ ORACLE_AVAILABLE
  /\ errs' = [errs EXCEPT ![c] = CallerErr]
  /\ thread_pc' = [thread_pc EXCEPT ![c] = "except"]
  /\ units' = units + 1
  /\ UNCHANGED <<valVars, closeVars, pipeVars, retryVars, ORACLE_AVAILABLE, pool,
                 leased, pending, store, connection, pc, op, data,
                 commit_interval, i, total_inserted, err, log, reported_row,
                 result, raised, connections>>

\* Line 103: the with-block of the caller runs on the yielded connection;
\* it writes its row, or raises.  The mock branch returns after its yield.
CallerBody(c) ==
  /\ thread_pc[c] = "body"
  /\ \/ /\ connections[c] \in Sessions
        /\ pending' = [pending EXCEPT ![connections[c]] = Append(@, CallerRow(c))]
        /\ thread_pc' = [thread_pc EXCEPT ![c] = "commit"]
        /\ UNCHANGED <<errs, connections>>
     \/ /\ connections[c] \in Sessions
        /\ errs' = [errs EXCEPT ![c] = CallerErr]
        /\ thread_pc' = [thread_pc EXCEPT ![c] = "except"]
        /\ UNCHANGED <<pending, connections>>
     \/ /\ connections[c] = MockConn
        /\ connections' = [connections EXCEPT ![c] = NoConn]
        /\ thread_pc' = [thread_pc EXCEPT ![c] = "idle"]
        /\ UNCHANGED <<pending, errs>>
  /\ UNCHANGED <<valVars, closeVars, pipeVars, retryVars, ORACLE_AVAILABLE, pool,
                 leased, store, connection, pc, op, data, commit_interval, i,
                 total_inserted, err, log, reported_row, result, raised,
                 units>>

\* Line 104: the closing commit of the caller's session.
CallerCommit(c) ==
  /\ thread_pc[c] = "commit"
  /\ \/ /\ store' = Committed(store, pending[connections[c]])
        /\ pending' = [pending EXCEPT ![connections[c]] = << >>]
        /\ thread_pc' = [thread_pc EXCEPT ![c] = "finally"]
        /\ UNCHANGED errs
     \/ /\ errs' = [errs EXCEPT ![c] = CallerErr]
        /\ thread_pc' = [thread_pc EXCEPT ![c] = "except"]
        /\ UNCHANGED <<store, pending>>
  /\ UNCHANGED <<valVars, closeVars, pipeVars, retryVars, ORACLE_AVAILABLE, pool,
                 leased, connection, pc, op, data, commit_interval, i,
                 total_inserted, err, log, reported_row, result, raised,
                 connections, units>>

\* Lines 105-109: rollback if the caller acquired a connection, re-raise.
CallerExcept(c) ==
  /\ thread_pc[c] = "except"
  /\ \/ /\ ~RollbackDue(connections[c])
        /\ UNCHANGED pending
     \/ /\ RollbackDue(connections[c])
        /\ pending' = [pending EXCEPT ![connections[c]] = RolledBack(@)]
     \/ /\ RollbackDue(connections[c])
        /\ UNCHANGED pending
  /\ thread_pc' = [thread_pc EXCEPT ![c] = "finally"]
  /\ UNCHANGED <<valVars, closeVars, pipeVars, retryVars, ORACLE_AVAILABLE, pool,
                 leased, store, connection, pc, op, data, commit_interval, i,
                 total_inserted, err, log, reported_row, result, raised,
                 connections, errs, units>>

\* Lines 110-112: the caller releases the connection it acquired; the unit
\* of work is over.
CallerFinally(c) ==
  /\ thread_pc[c] = "finally"
  /\ IF ReleaseDue(connections[c], errs[c])
     THEN /\ leased' = leased \ {connections[c]}
          /\ pending' = [pending EXCEPT ![connections[c]] = << >>]
     ELSE UNCHANGED <<leased, pending>>
  /\ connections' = [connections EXCEPT ![c] = NoConn]
  /\ errs' = [errs EXCEPT ![c] = NoErr]
  /\ thread_pc' = [thread_pc EXCEPT ![c] = "idle"]
  /\ UNCHANGED <<valVars, closeVars, pipeVars, retryVars, ORACLE_AVAILABLE, pool,
                 store, connection, pc, op, data, commit_interval, i,
                 total_inserted, err, log, reported_row, result, raised,
                 units>>

Caller(c) ==
  \/ CallerMock(c) \/ CallerAcquire(c) \/ CallerAcquireFail(c)
  \/ CallerBody(c) \/ CallerCommit(c) \/ CallerExcept(c) \/ CallerFinally(c)

\* A process has imported the module and started its callers: no pool
\* object exists yet and every caller is idle.
InitCallers ==
  /\ ORACLE_AVAILABLE \in BOOLEAN
  /\ pool = "none"
  /\ leased = {}
  /\ pending = [s \in Sessions |-> << >>]
  /\ store = << >>
  /\ connection = NoConn
  /\ op = "batch"
  /\ data = << >>
  /\ commit_interval = 1
  /\ i = 0
  /\ total_inserted = 0
  /\ err = NoErr
  /\ log = << >>
  /\ reported_row = 0
  /\ result = NoResult
  /\ raised = NoErr
  /\ retry_attempts = 1
  /\ retry_delay = 1
  /\ attempt = 0
  /\ sleeps = 0
  /\ waited = 0
  /\ results = NoResult
  /\ data_quality_rules = NoRules
  /\ sources = NoSources
  /\ reports = NoReports
  /\ src_idx = 0
  /\ connection_pool = "none"
  /\ main_result = "none"
  /\ close_calls = 0
  /\ closes = << >>
  /\ thread_pc = [c \in Callers |-> "idle"]
  /\ connections = [c \in Callers |-> NoConn]
  /\ errs = [c \in Callers |-> NoErr]
  /\ units = 0
  /\ val_df = NoFrame
  /\ val_source_name = "none"
  /\ validation_results = EmptyReport(NoFrame, "none")
  /\ pc = "pool_start"

NextCallers ==
  \/ GetConnectionPool \/ ClosePool \/ CloseConnectionPool
  \/ \E c \in Callers : Caller(c)

SpecCallers == InitCallers /\ [][NextCallers]_vars

\* ------------------------------------------- one call of the validation
MaxValRows == 2     \* longest DataFrame handed to validate_data_quality

\* The values of a cell: a negative and a positive number, a missing value
\* and a string that is no number.
Cells == {Num(-1), Num(1), Null, Str(0)}

\* The DataFrames validated: columns a and b, or column a only.
ValFrames ==
  UNION {{[columns |-> cs, rows |-> r] :
            r \in UNION {[1..n -> [cs -> Cells]] : n \in 0..MaxValRows}} :
         cs \in {{"a", "b"}, {"a"}}}

\* The rule sets of DATA_QUALITY_RULES: each check either absent or declared
\* for the columns a and b.
ValRules ==
  [required_columns : {<<"a">>, <<"a", "b">>},
   numeric_columns : {<< >>, <<"a", "b">>},
   positive_columns : {<< >>, <<"a", "b">>},
   range_checks : {<< >>, <<[col |-> "a", min_val |-> 0, max_val |-> 0],
                            [col |-> "b", min_val |-> 0, max_val |-> 0]>>},
   categorical_checks : {<< >>, <<[col |-> "a", valid_values |-> {Str(0)}],
                                  [col |-> "b", valid_values |-> {Str(0)}]>>}]

\* Lines 189-260: validate_data_quality is called and returns, or raises.
Validate ==
  /\ pc = "validate"
  /\ validation_results' =
       validate_data_quality(val_df, val_source_name, data_quality_rules)
  /\ pc' = "validated"
  /\ UNCHANGED <<closeVars, callerVars, retryVars, ORACLE_AVAILABLE, pool,
                 leased, pending, store, connection, op, data,
                 commit_interval, i, total_inserted, err, log, reported_row,
                 result, raised, data_quality_rules, sources, reports,
                 src_idx, connection_pool, main_result, val_df,
                 val_source_name>>

\* A CSVExtractor with rules registered for raw_daily only is about to
\* validate a DataFrame as raw_daily or as raw_meta.
InitValidate ==
  /\ ORACLE_AVAILABLE = FALSE
  /\ pool = "none"
  /\ leased = {}
  /\ pending = [s \in Sessions |-> << >>]
  /\ store = << >>
  /\ connection = NoConn
  /\ op = "batch"
  /\ data = << >>
  /\ commit_interval = 1
  /\ i = 0
  /\ total_inserted = 0
  /\ err = NoErr
  /\ log = << >>
  /\ reported_row = 0
  /\ result = NoResult
  /\ raised = NoErr
  /\ retry_attempts = 1
  /\ retry_delay = 1
  /\ attempt = 0
  /\ sleeps = 0
  /\ waited = 0
  /\ results = NoResult
  /\ \E r \in ValRules : data_quality_rules = [s \in {"raw_daily"} |-> r]
  /\ sources = NoSources
  /\ reports = NoReports
  /\ src_idx = 0
  /\ connection_pool = "none"
  /\ main_result = "none"
  /\ close_calls = 0
  /\ closes = << >>
  /\ thread_pc = NoCallers
  /\ connections = NoCallers
  /\ errs = NoCallers
  /\ units = 0
  /\ val_df \in ValFrames
  /\ val_source_name \in {"raw_daily", "raw_meta"}
  /\ validation_results = EmptyReport(NoFrame, "none")
  /\ pc = "validate"

NextValidate == Validate

SpecValidate == InitValidate /\ [][NextValidate]_vars

\* ------------------------------------------------------- reading the log
Failed(l) == {k \in DOMAIN l : ~l[k].ok}

Issued(l, o) == {k \in DOMAIN l : l[k].op = o}

Done(l, o) == {k \in DOMAIN l : l[k].op = o /\ l[k].ok}

InStore(r) == \E k \in DOMAIN store : store[k] = r

Ceil(n, k) == (n + k - 1) \div k

\* The exception a failed driver call of the log raised.
ErrorOf(l, k) == [kind |-> l[k].op, attempt |-> attempt, at |-> k]

\* The inserts of the log that a later successful commit covers: the first
\* commit or rollback that succeeds after the insert is a commit.
Covered(l) ==
  {k \in Done(l, "insert") :
     \E m \in Done(l, "commit") :
        /\ m > k
        /\ \A q \in Done(l, "rollback") : q > k => q > m}

BatchEnded == op = "batch" /\ pc \in {"returned", "raised"}

\* -------------------------------------------------------------------- C2
\* C2: when the insert of row f fails and f lies in commit interval j, then
\* once execute_batch has ended every row of intervals 1..j-1 is in the store
\* and every row from (j-1)*K+1 up to f is not.
C2_PartialFailure ==
  (op = "batch" /\ pc = "raised") =>
    \A k \in Failed(log) :
      log[k].op = "insert" =>
        LET f == log[k].row.id
            K == commit_interval
            j == ((f - 1) \div K) + 1
        IN /\ \A r \in 1..((j - 1) * K) : InStore(data[r])
           /\ \A r \in ((j - 1) * K + 1)..f : ~InStore(data[r])

\* Five rows, interval 2, the insert of row 4 failed: rows 1-2 are in the
\* store, rows 3-4 are not.
C2_Witness ==
  /\ op = "batch" /\ pc = "raised"
  /\ Len(data) = 5 /\ commit_interval = 2
  /\ \E k \in Failed(log) : log[k].op = "insert" /\ log[k].row.id = 4
  /\ InStore(data[1]) /\ InStore(data[2])
  /\ ~InStore(data[3]) /\ ~InStore(data[4])

\* -------------------------------------------------------------------- C3
\* C3 as stated: a batch of N rows staged without failure on a pooled session
\* issues ceil(N / K) commits.
C3_CeilCommits ==
  (op = "batch" /\ pc = "returned" /\ ORACLE_AVAILABLE) =>
    Cardinality(Issued(log, "commit")) = Ceil(Len(data), commit_interval)

\* C3 amended: a batch of N rows staged without failure issues floor(N / K)
\* intermediate commits, one final commit and, on a pooled session, the
\* closing commit of get_connection.
C3_CommitCount ==
  (op = "batch" /\ pc = "returned") =>
    Cardinality(Issued(log, "commit"))
      = (Len(data) \div commit_interval) + (IF ORACLE_AVAILABLE THEN 2 ELSE 1)

C3_Witness ==
  /\ op = "batch" /\ pc = "returned" /\ ORACLE_AVAILABLE
  /\ Len(data) = 5 /\ commit_interval = 2
  /\ Cardinality(Issued(log, "commit")) = 4

C6_FailureRowReported ==
  (op = "batch" /\ pc = "raised" /\ Cardinality(Failed(log)) = 1) =>
    \A k \in Failed(log) :
      log[k].line \in {200, 204} =>
        /\ \E m \in Done(log, "rollback") : m > k
        /\ \E m \in Done(log, "release") : m > k
        /\ reported_row = i
        /\ reported_row \in 1..Len(data)
        /\ raised = ErrorOf(log, k)

\* -------------------------------------------------------------------- C7
\* C7: at every point of execute_batch no session holds more than
\* commit_interval uncommitted rows.
C7_UncommittedBounded ==
  op = "batch" => \A s \in Sessions : Len(pending[s]) <= commit_interval

\* An intermediate commit failed with a full interval of 3 rows pending.
C7_Witness ==
  /\ op = "batch" /\ pc = "eb_except" /\ commit_interval = 3
  /\ Len(pending[connection]) = 3

\* -------------------------------------------------------------------- C8
UnitDone ==
  pc \in {"eb_return", "eb_raise", "rt_return", "rt_except", "rt_loop",
          "returned", "raised"}

\* C8: a session acquired through get_connection is released exactly once on
\* every exit path, so no session is leased once a unit of work is complete.
C8_ReleasedOnce ==
  /\ Cardinality(Issued(log, "release")) <= Cardinality(Done(log, "acquire"))
  /\ UnitDone =>
       /\ leased = {}
       /\ Cardinality(Issued(log, "release")) = Cardinality(Done(log, "acquire"))

\* The third unit of work of a retried call ended with a failed rollback.
C8_Witness ==
  /\ op = "dml" /\ attempt = 3 /\ pc = "raised" /\ leased = {}
  /\ \E k \in Failed(log) : log[k].op = "rollback"
  /\ Cardinality(Issued(log, "release")) = 1

FirstTry ==
  IF ~ORACLE_AVAILABLE THEN 0
  ELSE IF op = "query"
       THEN Cardinality({k \in DOMAIN store : store[k].src = "old"})
       ELSE 1

\* C10: execute_query and execute_dml make at most retry_attempts attempts;
\* an attempt that succeeds returns what a first attempt would have; when
\* the last attempt fails its own error is raised.
C10_Retry ==
  op \in {"query", "dml"} =>
    /\ attempt <= retry_attempts
    /\ (pc = "returned" /\ attempt >= 1) => result = FirstTry
    /\ pc = "raised" =>
         /\ attempt = retry_attempts
         /\ Failed(log) # {}
         /\ raised.attempt = retry_attempts
         /\ \E k \in Failed(log) :
              /\ \A q \in Failed(log) : q <= k
              /\ raised = ErrorOf(log, k)

\* Two attempts failed and the third, the last allowed, returned.
C10_Witness ==
  /\ op = "query" /\ pc = "returned" /\ retry_attempts = 3 /\ attempt = 3
  /\ sleeps = 2 /\ result = 2

\* -------------------------------------------------------------------- C1
\* C1: on a pooled session no insert is issued for, and no row is stored
\* of, a source whose validation report holds an error.
C1_ErrorBatchNotStaged ==
  ORACLE_AVAILABLE =>
  /\ \A k \in Issued(log, "insert") : reports[log[k].row.src].errors = << >>
  /\ \A k \in DOMAIN store : reports[store[k].src].errors = << >>

\* -------------------------------------------------------------------- C4
\* The rows of the inserts issued, in the order they were issued.
InsertedRows(l) ==
  LET ins == SelectSeq(l, LAMBDA e : e.op = "insert")
  IN [k \in 1..Len(ins) |-> ins[k].row]

\* C4: for a source whose report holds no error, stage_data issues the
\* inserts in the order of the rows of the DataFrame, one per row, and
\* len(batch) of them when no call on the store fails.
C4_InsertsInOrder ==
  (src_idx \in 1..Len(SourceOrder)
     /\ reports[SourceOrder[src_idx]].errors = << >>) =>
    LET batch == DataTuples(SourceOrder[src_idx], sources[SourceOrder[src_idx]])
        ins == InsertedRows(log)
    IN /\ Len(ins) <= Len(batch)
       /\ ins = SubSeq(batch, 1, Len(ins))
       /\ (Failed(log) = {} /\ pc \in {"returned", "main_done"})
            => Len(ins) = Len(batch)

\* The second source, two rows and no error, has been staged in full.
C4_Witness ==
  /\ src_idx = 2 /\ pc = "returned"
  /\ reports["raw_sales"].errors = << >>
  /\ Len(sources["raw_sales"].rows) = 2
  /\ InsertedRows(log) = <<Row("raw_sales", 1), Row("raw_sales", 2)>>

\* ------------------------------------------------------------------- C11
\* The statement of the call has completed: every row of the batch was
\* inserted, or the SELECT / DML statement was executed.
StatementCompleted ==
  IF op = "batch"
  THEN Len(InsertedRows(log)) = Len(data) /\ Failed(log) = {}
  ELSE Done(log, IF op = "query" THEN "select" ELSE "insert") # {}

\* The attempts a call has made to get a session.
AcquireAttempts ==
  IF op = "batch" THEN Cardinality(Issued(log, "acquire")) ELSE attempt

\* C11: for every max_retries, 0 included, a call of execute_query,
\* execute_dml or execute_batch that returns normally has completed its
\* statement, and a call that ends with the failure of an acquisition has
\* made max_retries attempts.
C11_AcquisitionFailure ==
  /\ pc = "returned" => StatementCompleted
  /\ (pc = "raised" /\ raised.kind = "acquire") =>
       AcquireAttempts = retry_attempts

\* ------------------------------------------------------------------- C12
\* C12 as stated: when every attempt of execute_query or execute_dml has
\* failed and the failure is raised, max_retries delays were taken and the
\* time waited is max_retries * retry_delay_seconds.
C12_WaitIsRetriesTimesDelay ==
  (op \in {"query", "dml"} /\ pc = "raised") =>
    /\ sleeps = retry_attempts
    /\ waited = retry_attempts * retry_delay

\* C12 amended: when every attempt has failed and the failure is raised,
\* max_retries - 1 delays were taken, one between two attempts and none
\* after the last, each of retry_delay_seconds.
C12_FixedDelay ==
  op \in {"query", "dml"} =>
    /\ waited = sleeps * retry_delay
    /\ pc = "raised" =>
         /\ sleeps = retry_attempts - 1
         /\ waited = (retry_attempts - 1) * retry_delay

\* Three attempts failed: two delays of 2 seconds were taken.
C12_Witness ==
  /\ op = "query" /\ pc = "raised" /\ retry_attempts = 3 /\ retry_delay = 2
  /\ attempt = 3 /\ sleeps = 2 /\ waited = 4

\* ------------------------------------------------------------------- C13
\* C13: within one call of execute_batch a session is acquired at most once,
\* the insert of each row is issued at most once, no insert and no commit is
\* issued after the first failure, and no row is in the store twice.
C13_NoRetryInBatch ==
  op = "batch" =>
    /\ Cardinality(Issued(log, "acquire")) <= 1
    /\ \A k, m \in Issued(log, "insert") : log[k].row = log[m].row => k = m
    /\ \A k \in Failed(log) :
         \A m \in DOMAIN log : m > k => log[m].op \notin {"insert", "commit"}
    /\ \A k, m \in DOMAIN store : store[k] = store[m] => k = m

\* With max_retries = 3 the insert of row 2 failed after row 1 was committed:
\* the call raised with row 1 in the store once and no further insert.
C13_Witness ==
  /\ op = "batch" /\ pc = "raised" /\ retry_attempts = 3
  /\ commit_interval = 1 /\ Len(data) = 3
  /\ \E k \in Failed(log) : log[k].op = "insert" /\ log[k].row.id = 2
  /\ store = <<data[1]>>
  /\ Cardinality(Issued(log, "insert")) = 2

\* ------------------------------------------------------------------- C15
\* create_pool ran with the driver and could not establish the pool: the
\* global is set and self.pool is still None.
CreationFailed ==
  ORACLE_AVAILABLE /\ connection_pool = "set" /\ pool = "none"

\* C15: when create_pool could not establish the pool, the pipeline does
\* not go on: stage_data hands no source to execute_batch.
C15_NoStagingOnFailedPool ==
  CreationFailed => (src_idx = 0 /\ pc = "stage_loop")

\* ------------------------------------------------------------------- C14
\* C14: once a close call has closed the pool, no further close call
\* invokes the underlying pool's close(): the call that closed the pool is
\* the last call of self.pool.close().
C14_CloseIdempotent ==
  \A k \in DOMAIN closes : closes[k] => k = Len(closes)

\* ------------------------------------------------------------------- C16
\* The callers holding session s.
Holders(s) == {c \in DOMAIN connections : connections[c] = s}

ValidatedWithRules ==
  pc = "validated" /\ val_source_name \in DOMAIN data_quality_rules

ValRulesUsed == data_quality_rules[val_source_name]

\* The messages of a list that are about a check on a column.
About(msgs, col, check) ==
  {k \in DOMAIN msgs : msgs[k].col = col /\ msgs[k].check = check}

\* Some cell of the column satisfies: it is a string, it is below zero, it
\* is outside [lo, hi], it is not an allowed value.
HasString(d, col) == \E k \in DOMAIN d.rows : d.rows[k][col].t = "str"

HasNegative(d, col) ==
  \E k \in DOMAIN d.rows : d.rows[k][col].t = "num" /\ d.rows[k][col].v < 0

HasOutOfRange(d, col, lo, hi) ==
  \E k \in DOMAIN d.rows :
     /\ d.rows[k][col].t = "num"
     /\ (d.rows[k][col].v < lo \/ d.rows[k][col].v > hi)

HasInvalid(d, col, valid) == \E k \in DOMAIN d.rows : d.rows[k][col] \notin valid

\* ------------------------------------------------------------------- C17
\* C17: when the batch lacks columns its rule set requires, the report
\* validate_data_quality returns holds exactly one error message about
\* missing columns.
C17_MissingColumnsReported ==
  (ValidatedWithRules /\ MissingColumns(val_df, ValRulesUsed) # {}) =>
    /\ ~validation_results.raised
    /\ Cardinality({k \in DOMAIN validation_results.errors :
                      validation_results.errors[k].check = "missing"}) = 1

\* ------------------------------------------------------------------- C18
\* C18: for every batch, validate_data_quality called with a source name
\* that has no rule set returns a report without warnings, errors and
\* issues, and does not raise.
C18_NoRulesEmptyReport ==
  (pc = "validated" /\ val_source_name \notin DOMAIN data_quality_rules) =>
    /\ ~validation_results.raised
    /\ validation_results.warnings = << >>
    /\ validation_results.errors = << >>
    /\ validation_results.issues = << >>
    /\ validation_results.source = val_source_name
    /\ validation_results.total_rows = Len(val_df.rows)

\* A batch with a string and a negative number in column a and without
\* column b was validated as raw_meta, which has no rules.
C18_Witness ==
  /\ pc = "validated" /\ val_source_name = "raw_meta"
  /\ "raw_meta" \notin DOMAIN data_quality_rules
  /\ val_df.columns = {"a"} /\ Len(val_df.rows) = 2
  /\ val_df.rows[1]["a"] = Str(0) /\ val_df.rows[2]["a"] = Num(-1)
  /\ validation_results.issues = << >>

\* ------------------------------------------------------------------- C19
\* C19: for each declared numeric column present in the batch, the report
\* holds one warning whose count is the number of non-missing values that
\* are no number, and no warning when there is no such value.
C19_NullsNotCounted ==
  (ValidatedWithRules /\ ~validation_results.raised) =>
    \A k \in DOMAIN ValRulesUsed.numeric_columns :
      LET col == ValRulesUsed.numeric_columns[k]
          n == Cardinality({r \in DOMAIN val_df.rows :
                              val_df.rows[r][col].t = "str"})
          w == About(validation_results.warnings, col, "non-numeric")
      IN Present(val_df, col) =>
           IF n = 0 THEN w = {}
           ELSE /\ Cardinality(w) = 1
                /\ \A m \in w : validation_results.warnings[m].count = n

\* ------------------------------------------------------------------- C20
\* C20: for every batch and rule set validate_data_quality returns a report
\* that holds one message for every violated pair of a check and a column:
\* a warning for a column with a string (numeric check) or a value out of
\* range, an error for a column with a negative or a not allowed value, and
\* no other kind of message in either list.
C20_NoShortCircuit ==
  ValidatedWithRules =>
    LET r == validation_results
        rules == ValRulesUsed
    IN /\ ~r.raised
       /\ \A k \in DOMAIN rules.numeric_columns :
            LET col == rules.numeric_columns[k]
            IN (Present(val_df, col) /\ HasString(val_df, col)) =>
                 Cardinality(About(r.warnings, col, "non-numeric")) = 1
       /\ \A k \in DOMAIN rules.positive_columns :
            LET col == rules.positive_columns[k]
            IN (Present(val_df, col) /\ HasNegative(val_df, col)) =>
                 Cardinality(About(r.errors, col, "negative")) = 1
       /\ \A k \in DOMAIN rules.range_checks :
            LET rc == rules.range_checks[k]
            IN (Present(val_df, rc.col)
                  /\ HasOutOfRange(val_df, rc.col, rc.min_val, rc.max_val)) =>
                 Cardinality(About(r.warnings, rc.col, "out of range")) = 1
       /\ \A k \in DOMAIN rules.categorical_checks :
            LET cc == rules.categorical_checks[k]
            IN (Present(val_df, cc.col)
                  /\ HasInvalid(val_df, cc.col, cc.valid_values)) =>
                 Cardinality(About(r.errors, cc.col, "invalid")) = 1
       /\ \A k \in DOMAIN r.warnings :
            r.warnings[k].check \in {"non-numeric", "out of range"}
       /\ \A k \in DOMAIN r.errors :
            r.errors[k].check \in {"negative", "invalid"}

\* ------------------------------------------------------------------- C21
\* extract_data raised: a required column is missing from raw_daily or
\* raw_sales, or validate_data_quality raised.
ExtractionRaised ==
  \/ ExtractRaises(sources, data_quality_rules)
  \/ \E s \in SourceNames :
       validate_data_quality(sources[s], s, data_quality_rules).raised

\* The first driver call of the unit of work that failed.
FirstFailure(l) == CHOOSE k \in Failed(l) : \A q \in Failed(l) : k <= q

\* The row at which the call at position k of the log failed: the row of a
\* failed insert, the last row inserted before a failed commit.
RowOfFailure(l, k) ==
  IF l[k].op = "insert" THEN l[k].row.id
  ELSE Cardinality({m \in Done(l, "insert") : m < k})

\* C21: main returns True exactly when extraction, validation and the
\* staging of every source completed without raising and False otherwise;
\* after a staging failure the error raised is that of a failed call of the
\* stage and, when the first failure occurred in the row loop, the row
\* reported is the row at which it occurred.
C21_ProcessOutcome ==
  pc = "main_done" =>
    /\ main_result =
         (IF ~ExtractionRaised /\ raised = NoErr THEN "true" ELSE "false")
    /\ raised # NoErr =>
         /\ Failed(log) # {}
         /\ \E k \in Failed(log) : raised = ErrorOf(log, k)
         /\ log[FirstFailure(log)].line \in {200, 204} =>
              reported_row = RowOfFailure(log, FirstFailure(log))

\* ------------------------------------------------------------------- C22
\* C22: after execute_batch failed and reported the failure index f, every
\* row of the batch with an index below f is committed in the store.
C22_ResumptionSafe ==
  (op = "batch" /\ pc = "raised" /\ reported_row > 0) =>
    \A r \in DOMAIN data : r < reported_row => InStore(data[r])

\* ------------------------------------------------------------------- C23
\* How often the row of the DML statement is in the store.
Applied == Cardinality({k \in DOMAIN store : store[k] = DmlRow})

\* C23: the statement of execute_dml is never in the store twice; when the
\* call returns after any number of failed attempts it is in the store
\* exactly once and the count returned is that of one execution; before
\* each further attempt starts, nothing of the failed attempts is in the
\* store or left open on a session.
C23_DmlAppliedOnce ==
  op = "dml" =>
    /\ Applied <= 1
    /\ (pc = "returned" /\ attempt >= 1) =>
         /\ Applied = (IF ORACLE_AVAILABLE THEN 1 ELSE 0)
         /\ result = (IF ORACLE_AVAILABLE THEN 1 ELSE 0)
         /\ \A s \in Sessions : pending[s] = << >>
    /\ pc \in {"rt_loop", "raised"} =>
         /\ Applied = 0
         /\ \A s \in Sessions : pending[s] = << >>

\* The third attempt returned after two attempts failed; the store held two
\* rows before the call.
C23_Witness ==
  /\ op = "dml" /\ pc = "returned" /\ attempt = 3 /\ sleeps = 2
  /\ Len(store) = 3 /\ Applied = 1 /\ result = 1

\* ------------------------------------------------------------------- C24
\* The place of a source in the order raw_daily, raw_sales, raw_meta.
Rank(s) == IF s = "raw_daily" THEN 1 ELSE IF s = "raw_sales" THEN 2 ELSE 3

\* The rows of source s in the store, in store order.
StoredOf(s) == SelectSeq(store, LAMBDA r : r.src = s)

\* stage_data has been entered and left.
StageLeft == pc = "main_done" /\ ~ExtractionRaised

\* C24 as stated, its last part: on every exit path of stage_data the pool
\* is closed and the global reference is reset.
C24_PoolClosedOnExit ==
  StageLeft => (pool # "open" /\ connection_pool = "none")

\* C24 amended: the sources are staged one at a time in the order raw_daily,
\* raw_sales, raw_meta, each on a session acquired for it and released
\* before the next; once staging of a source has failed the rows committed
\* for earlier sources and for earlier intervals of the failing one stay in
\* the store and nothing of a later source is inserted; on every exit path
\* of stage_data the pool's close() is called once and the global reference
\* is reset, and the pool is closed unless that call raised.
C24_SerialStaging ==
  /\ \A k \in Issued(log, "insert") : Rank(log[k].row.src) = src_idx
  /\ \A k \in DOMAIN store : Rank(store[k].src) <= src_idx
  /\ \A k, m \in DOMAIN store :
       k < m => Rank(store[k].src) <= Rank(store[m].src)
  /\ Cardinality(Issued(log, "acquire")) <= 1
  /\ pc \in {"stage_loop", "returned", "raised", "main_done"} => leased = {}
  /\ ORACLE_AVAILABLE =>
       \A s \in SourceNames :
         LET batch == DataTuples(s, sources[s])
         IN /\ (Rank(s) < src_idx /\ pool # "none") => StoredOf(s) = batch
            /\ Len(StoredOf(s)) <= Len(batch)
            /\ StoredOf(s) = SubSeq(batch, 1, Len(StoredOf(s)))
  /\ StageLeft =>
       /\ connection_pool = "none"
       /\ close_calls = 1
       /\ closes = (IF pool = "none" THEN << >> ELSE <<pool = "closed">>)

\* Staging of raw_sales failed at the insert of its second row with interval
\* 1: both rows of raw_daily and the first of raw_sales are in the store,
\* the pool is closed and the global reference reset.
C24_Witness ==
  /\ StageLeft /\ src_idx = 2 /\ raised.kind = "insert" /\ commit_interval = 1
  /\ store = <<Row("raw_daily", 1), Row("raw_daily", 2), Row("raw_sales", 1)>>
  /\ Len(sources["raw_meta"].rows) = 2
  /\ pool = "closed" /\ connection_pool = "none"

====
